---- MODULE Spec2Model ----
(***************************************************************************)
(* Model of the RAG module of backend-recruitment-exercise                *)
(* (src/rag_module/services.py): the in-process vector index              *)
(* (LocalIndex), the embedding provider with retry and local fallback,    *)
(* the dimension reconciler, and the index / query flows of the           *)
(* orchestrator together with the metrics hand-off.                       *)
(*                                                                         *)
(* Representation.                                                         *)
(*   - A text (document text, chunk, question, answer) is a sequence of   *)
(*     one-character strings.                                              *)
(*   - A float is an exact rational [num, den] in lowest terms, den > 0.  *)
(*     Vectors are sequences of integers drawn from pools whose norms are *)
(*     integers, so that the cosine is an exact rational.                 *)
(*   - Remote services (embedding API, generative model, metrics sink)    *)
(*     are oracles: their outcomes are inputs of the actions.             *)
(***************************************************************************)
EXTENDS Integers, Sequences, FiniteSets, TLC

VARIABLES GOOGLE_API_KEY, vectors, last, flow

vars == <<GOOGLE_API_KEY, vectors, last, flow>>

(***************************************************************************)
(* Bounds of the model and program constants.                              *)
(***************************************************************************)
\* Largest number of records the index is let to hold (the code has no limit).
MaxStored == 3
\* Largest top_k of a direct LocalIndex.query call.
MaxTopK == 2
\* Largest number of records the flows are let to store in the index.
MaxIndexed == 2
\* Length of the longest document text offered to the index flow.
MaxTextLen == 3
\* services.py:83 TARGET_EMBED_DIM (128 in local mode), scaled down.
TARGET_EMBED_DIM == 2
\* services.py:190 chunk_size (1000) and chunk_overlap (100), scaled down.
ChunkSize == 2
ChunkOverlap == 1

\* services.py:143 / 348: retries=3, delay=5; services.py:157: uniform(0, 2).
Retries == 3
Delay == 5
MaxJitter == 2
\* services.py:235 and 320: top_k of the two query flows.
TopKQueryDocuments == 5
TopKProcessQuery == 3
\* services.py:250-255: whitespace-separated words of the fixed prompt text.
PromptWords == 21

DocIds == {"a", "b"}
NoPdfId == "None"

(***************************************************************************)
(* Arithmetic helpers: exact rationals standing for Python floats.         *)
(***************************************************************************)
Abs(n) == IF n < 0 THEN -n ELSE n

Min(a, b) == IF a < b THEN a ELSE b

RECURSIVE GCD(_, _)
GCD(a, b) == IF b = 0 THEN a ELSE GCD(b, a % b)

Rat(n, d) ==
    LET g == GCD(Abs(n), d)
    IN  [num |-> n \div g, den |-> d \div g]

RatLess(p, q) == p.num * q.den < q.num * p.den

RatMax(p, q) == IF RatLess(p, q) THEN q ELSE p

RatAdd(p, q) == Rat(p.num * q.den + q.num * p.den, p.den * q.den)

Zero == Rat(0, 1)

One == Rat(1, 1)

RECURSIVE SumSeq(_)
SumSeq(s) == IF s = <<>> THEN 0 ELSE Head(s) + SumSeq(Tail(s))

\* x ** 0.5 on the squares the vector pools produce.
ISqrt(s) == CHOOSE r \in 0..s : r * r = s

(***************************************************************************)
(* LocalIndex (services.py:44-73).                                         *)
(***************************************************************************)
\* LocalIndex._cosine
Cosine(a, b) ==
    IF Len(a) = 0 \/ Len(b) = 0 \/ Len(a) # Len(b)
    THEN Zero
    ELSE LET dot == SumSeq([i \in 1..Len(a) |-> a[i] * b[i]])
             ra  == ISqrt(SumSeq([i \in 1..Len(a) |-> a[i] * a[i]]))
             rb  == ISqrt(SumSeq([i \in 1..Len(b) |-> b[i] * b[i]]))
             na  == IF ra = 0 THEN 1 ELSE ra
             nb  == IF rb = 0 THEN 1 ELSE rb
         IN  Rat(dot, na * nb)

\* Faulty variant of UpsertVectors: the batch is put in front of the list.
UpsertVectorsFront(vs, batch) == batch \o vs

\* LocalIndex.upsert: self._vectors.extend(vectors)
UpsertVectors(vs, batch) == vs \o batch

\* Faulty variant of PassesFilter: the $in branch is not applied.
PassesFilterNoIn(md, filter) ==
    CASE filter.kind = "none" -> TRUE
      [] filter.kind = "eq"   -> md.pdf_id = filter.val
      [] filter.kind = "in"   -> TRUE

\* The filter test of LocalIndex.query: TRUE when the record is kept.
PassesFilter(md, filter) ==
    CASE filter.kind = "none" -> TRUE
      [] filter.kind = "eq"   -> md.pdf_id = filter.val
      [] filter.kind = "in"   -> md.pdf_id \in filter.val

RECURSIVE SelectSeq2(_, _)
SelectSeq2(s, filter) ==
    IF s = <<>> THEN <<>>
    ELSE IF PassesFilter(Head(s).metadata, filter)
         THEN <<Head(s)>> \o SelectSeq2(Tail(s), filter)
         ELSE SelectSeq2(Tail(s), filter)

\* Faulty variant of InsertDesc: the order is ascending.
RECURSIVE InsertAsc(_, _)
InsertAsc(sorted, m) ==
    IF sorted = <<>> THEN <<m>>
    ELSE IF RatLess(m.score, Head(sorted).score)
         THEN <<m>> \o sorted
         ELSE <<Head(sorted)>> \o InsertAsc(Tail(sorted), m)

\* Faulty variant of InsertDesc: m goes in front of the elements of equal
\* score (a sort that is not stable).
RECURSIVE InsertDescBeforeTies(_, _)
InsertDescBeforeTies(sorted, m) ==
    IF sorted = <<>> THEN <<m>>
    ELSE IF ~RatLess(m.score, Head(sorted).score)
         THEN <<m>> \o sorted
         ELSE <<Head(sorted)>> \o InsertDescBeforeTies(Tail(sorted), m)

\* Position at which m enters a sequence sorted by non-increasing score:
\* behind every element whose score is not smaller (stable).
RECURSIVE InsertDesc(_, _)
InsertDesc(sorted, m) ==
    IF sorted = <<>> THEN <<m>>
    ELSE IF RatLess(Head(sorted).score, m.score)
         THEN <<m>> \o sorted
         ELSE <<Head(sorted)>> \o InsertDesc(Tail(sorted), m)

\* results.sort(key=lambda m: m.score, reverse=True): stable, descending.
RECURSIVE SortDesc(_)
SortDesc(s) ==
    IF s = <<>> THEN <<>>
    ELSE InsertDesc(SortDesc(SubSeq(s, 1, Len(s) - 1)), s[Len(s)])

\* Faulty variant of Truncate: one match too many.
TruncateOneMore(s, top_k) == SubSeq(s, 1, Min(top_k + 1, Len(s)))

\* results[:top_k] for top_k >= 0
Truncate(s, top_k) == SubSeq(s, 1, Min(top_k, Len(s)))

\* LocalIndex.query: the matches of the response, each (metadata, score).
Query(vs, vector, top_k, filter) ==
    LET kept    == SelectSeq2(vs, filter)
        results == [i \in 1..Len(kept) |->
                      [metadata |-> kept[i].metadata,
                       score    |-> Cosine(vector, kept[i].values)]]
    IN  Truncate(SortDesc(results), top_k)

(***************************************************************************)
(* Inputs of the direct index operations.                                  *)
(***************************************************************************)
Rec(pdf, i, vals, text, mdpdf) ==
    [id |-> <<pdf, "-", i>>, values |-> vals,
     metadata |-> [text |-> text, pdf_id |-> mdpdf]]

RecordPool ==
    { Rec("a", 0, <<1, 0>>, <<"x">>, "a"),
      Rec("a", 0, <<0, 1>>, <<"y">>, "a"),
      Rec("a", 1, <<1, 0>>, <<"y">>, "a"),
      Rec("b", 0, <<3, 4>>, <<"x">>, "b"),
      Rec("c", 0, <<0, 0>>, <<"z">>, NoPdfId) }

\* One record, or two records of one document.
BatchPool ==
    { <<r>> : r \in RecordPool }
      \cup { <<p[1], p[2]>> :
                p \in {q \in RecordPool \X RecordPool : q[1].id[1] = q[2].id[1]} }

QueryVectors == { <<1, 0>>, <<3, 4>> }

FilterPool ==
    { [kind |-> "none"] }
      \cup { [kind |-> "eq", val |-> d] : d \in DocIds }
      \cup { [kind |-> "in", val |-> S] : S \in {{}, {"a"}, {"a", "b"}} }

NoCall == [op |-> "none"]

\* No process_and_embed call is in progress.
NoFlow == [pc |-> "idle"]

Init ==
    /\ GOOGLE_API_KEY \in BOOLEAN
    /\ vectors = <<>>
    /\ last = NoCall
    /\ flow = NoFlow

\* The index alone: the credential plays no part in LocalIndex.
InitIndex ==
    /\ GOOGLE_API_KEY = FALSE
    /\ vectors = <<>>
    /\ last = NoCall
    /\ flow = NoFlow

\* index.upsert(vectors=batch), called directly.
Upsert ==
    \E batch \in BatchPool :
        /\ Len(vectors) + Len(batch) <= MaxStored
        /\ vectors' = UpsertVectors(vectors, batch)
        /\ last' = [op |-> "upsert"]
        /\ UNCHANGED <<GOOGLE_API_KEY, flow>>

\* The vectors offered to a direct query: those of the pool and the vector
\* of the record stored last.
QueryVectorsOn(vs) ==
    QueryVectors \cup (IF vs = <<>> THEN {} ELSE {vs[Len(vs)].values})

\* index.query(vector, top_k, filter), called directly.
QueryIndex ==
    \E vector \in QueryVectorsOn(vectors), top_k \in 1..MaxTopK,
       filter \in FilterPool :
        /\ last' = [op |-> "query", vector |-> vector, top_k |-> top_k,
                    filter |-> filter,
                    matches |-> Query(vectors, vector, top_k, filter)]
        /\ UNCHANGED <<GOOGLE_API_KEY, vectors, flow>>

NextIndex == Upsert \/ QueryIndex

SpecIndex == InitIndex /\ [][NextIndex]_vars

(***************************************************************************)
(* LocalIndex under concurrent callers.  The endpoints of main.py are      *)
(* plain functions, which the server runs on worker threads, and           *)
(* LocalIndex takes no lock.  A query is followed through its loop, one    *)
(* iteration per step; any number of upserts by other threads may fall     *)
(* between two steps.  list.extend with a list argument is one             *)
(* uninterrupted step of the interpreter.                                  *)
(***************************************************************************)
\* Largest number of records the index holds while a scan is followed.
MaxScanned == 2

ScanFilters == { [kind |-> "none"], [kind |-> "eq", val |-> "a"] }

\* query, up to the loop: results = []
QueryStart ==
    \E vector \in QueryVectors, top_k \in 1..MaxTopK, filter \in ScanFilters :
        /\ last.op # "query_scan"
        /\ last' = [op |-> "query_scan", vector |-> vector, top_k |-> top_k,
                    filter |-> filter, i |-> 1, results |-> <<>>]
        /\ UNCHANGED <<GOOGLE_API_KEY, vectors, flow>>

\* One iteration of `for v in self._vectors`: the list iterator hands out
\* the element at its position as long as the position is inside the list
\* as it is now.
QueryStep ==
    /\ last.op = "query_scan"
    /\ last.i <= Len(vectors)
    /\ LET v == vectors[last.i]
           m == [metadata |-> v.metadata,
                 score    |-> Cosine(last.vector, v.values)]
       IN  last' = [last EXCEPT
                       !.i = @ + 1,
                       !.results = IF PassesFilter(v.metadata, last.filter)
                                   THEN Append(@, m) ELSE @]
    /\ UNCHANGED <<GOOGLE_API_KEY, vectors, flow>>

\* The iterator is exhausted: sort, truncate, return.
QueryEnd ==
    /\ last.op = "query_scan"
    /\ last.i > Len(vectors)
    /\ last' = [op |-> "query", vector |-> last.vector, top_k |-> last.top_k,
                filter |-> last.filter,
                matches |-> Truncate(SortDesc(last.results), last.top_k),
                seen |-> last.i - 1]
    /\ UNCHANGED <<GOOGLE_API_KEY, vectors, flow>>

\* index.upsert(vectors=batch) on another thread, at any point of the scan.
ConcurrentUpsert ==
    \E batch \in BatchPool :
        /\ Len(vectors) + Len(batch) <= MaxScanned
        /\ vectors' = UpsertVectors(vectors, batch)
        /\ UNCHANGED <<GOOGLE_API_KEY, last, flow>>

NextConcurrent == QueryStart \/ QueryStep \/ QueryEnd \/ ConcurrentUpsert

SpecConcurrent == InitIndex /\ [][NextConcurrent]_vars

(***************************************************************************)
(* Embedding provider (services.py:126-161).                               *)
(***************************************************************************)
Code(c) ==
    CASE c = "x" -> 1 [] c = "y" -> 2 [] c = "z" -> 3 [] OTHER -> 4

\* Stand-in for hashlib.sha256(content).digest(): a deterministic number
\* computed from the characters of the content and their positions.
Digest(content) ==
    SumSeq([i \in 1..Len(content) |-> i * Code(content[i])]) + Len(content)

\* _cheap_embed: a deterministic, L2-normalized vector of length dim derived
\* from the digest of the content.  The expansion of the digest bytes is
\* abstracted to the unit vector of the axis the digest selects, which keeps
\* what the callers rely on: determinism, length dim, non-negative
\* components, norm 1.
CheapEmbed(content, dim) ==
    [i \in 1..dim |-> IF i = (Digest(content) % dim) + 1 THEN 1 ELSE 0]

\* Outcomes of one remote call: a response, or an exception whose message
\* str(e) is described by the set of the markers ("429", "rate") it contains.
Ok(v) == [kind |-> "ok", value |-> v]

Err(markers) == [kind |-> "error", msg |-> markers]

\* services.py:156: the rate-limit signal of the embedding call.
EmbedRateLimited(o) == o.kind = "error" /\ "429" \in o.msg

\* Faulty variant of EmbedHardError: the exception leaves embed_with_retry.
EmbedHardErrorRaises(content, trace, sleeps) ==
    [raised |-> TRUE, vec |-> <<>>, source |-> "none",
     trace |-> trace, sleeps |-> sleeps]

\* services.py:158-160: fall back to the local embedding on a hard error.
EmbedHardError(content, trace, sleeps) ==
    [raised |-> FALSE, vec |-> CheapEmbed(content, TARGET_EMBED_DIM),
     source |-> "local", trace |-> trace, sleeps |-> sleeps]

\* Faulty variant of Backoff: the attempt number is not applied.
BackoffFlat(attempt, jitter) == Delay + jitter

\* services.py:157: delay * (attempt + 1) + random.uniform(0, 2),
\* attempt counted from 0.
Backoff(attempt, jitter) == Delay * (attempt + 1) + jitter

\* The loop of embed_with_retry from attempt on (attempt counted from 0).
\* trace: the outcomes of the remote calls made so far, in order;
\* sleeps: the time.sleep durations so far, in order.
RECURSIVE EmbedLoop(_, _, _, _, _, _, _)
EmbedLoop(content, retries, outcomes, jitters, attempt, trace, sleeps) ==
    IF attempt >= retries
    THEN [raised |-> FALSE, vec |-> CheapEmbed(content, TARGET_EMBED_DIM),
          source |-> "local", trace |-> trace, sleeps |-> sleeps]
    ELSE LET o == outcomes[attempt + 1]
             t == Append(trace, o)
         IN  IF o.kind = "ok"
             THEN [raised |-> FALSE, vec |-> o.value, source |-> "remote",
                   trace |-> t, sleeps |-> sleeps]
             ELSE IF EmbedRateLimited(o)
                  THEN EmbedLoop(content, retries, outcomes, jitters,
                                 attempt + 1, t,
                                 Append(sleeps,
                                        Backoff(attempt, jitters[attempt + 1])))
                  ELSE EmbedHardError(content, t, sleeps)

\* embed_with_retry(content, retries=3, delay=5) with the credential `key`.
EmbedWithRetry(content, key, outcomes, jitters) ==
    IF ~key
    THEN [raised |-> FALSE, vec |-> CheapEmbed(content, TARGET_EMBED_DIM),
          source |-> "local", trace |-> <<>>, sleeps |-> <<>>]
    ELSE EmbedLoop(content, Retries, outcomes, jitters, 0, <<>>, <<>>)

Contents == { <<"x">>, <<"x", "y">> }

EmbedOutcomes ==
    { Ok(<<3, 4>>), Ok(<<>>), Err({"429"}), Err({"rate"}), Err({}) }

\* One call of embed_with_retry waiting to run: its content, the outcome the
\* remote service gives to each attempt, the jitter drawn at each attempt.
InitEmbed ==
    /\ GOOGLE_API_KEY \in BOOLEAN
    /\ vectors = <<>>
    /\ last \in [op : {"embed_call"}, content : Contents,
                 outcomes : [1..Retries -> EmbedOutcomes],
                 jitters : [1..Retries -> 0..MaxJitter]]
    /\ flow = NoFlow

Embed ==
    /\ last.op = "embed_call"
    /\ last' = [op |-> "embed", content |-> last.content,
                outcomes |-> last.outcomes,
                result |-> EmbedWithRetry(last.content, GOOGLE_API_KEY,
                                          last.outcomes, last.jitters)]
    /\ UNCHANGED <<GOOGLE_API_KEY, vectors, flow>>

NextEmbed == Embed

SpecEmbed == InitEmbed /\ [][NextEmbed]_vars

(***************************************************************************)
(* Texts, the chunker, the dimension reconciler and the confidence score.  *)
(***************************************************************************)
IsSpace(c) == c \in {" ", "\n"}

\* len(text.split()): the number of maximal runs of non-blank characters.
WordCount(t) ==
    Cardinality({i \in 1..Len(t) :
                    ~IsSpace(t[i]) /\ (i = 1 \/ IsSpace(t[i - 1]))})

\* sep.join(texts)
RECURSIVE Join(_, _)
Join(texts, sep) ==
    IF texts = <<>> THEN <<>>
    ELSE IF Len(texts) = 1 THEN texts[1]
    ELSE texts[1] \o sep \o Join(Tail(texts), sep)

\* services.py:331: the placeholder context "No relevant context found."
NoContextText ==
    <<"N", "o", " ", "r", "e", "l", "e", "v", "a", "n", "t", " ",
      "c", "o", "n", "t", "e", "x", "t", " ", "f", "o", "u", "n", "d", ".">>

\* Windows of ChunkSize characters, each starting ChunkSize - ChunkOverlap
\* after the one before, up to the end of the text.
RECURSIVE SplitFrom(_, _)
SplitFrom(text, start) ==
    IF start + ChunkSize - 1 >= Len(text)
    THEN <<SubSeq(text, start, Len(text))>>
    ELSE <<SubSeq(text, start, start + ChunkSize - 1)>>
           \o SplitFrom(text, start + ChunkSize - ChunkOverlap)

\* RecursiveCharacterTextSplitter(chunk_size, chunk_overlap).split_text on a
\* text without separators: no chunk for the empty text, and none for a
\* text of blanks only (pieces are stripped and empty ones dropped).
SplitText(text) ==
    IF \A i \in 1..Len(text) : IsSpace(text[i]) THEN <<>>
    ELSE SplitFrom(text, 1)

\* Faulty variant of EnsureDim: a short vector is returned as it is.
EnsureDimNoPad(vec, dim) ==
    IF Len(vec) > dim THEN SubSeq(vec, 1, dim) ELSE vec

\* Faulty variant of EnsureDim: a long vector is returned as it is.
EnsureDimNoCut(vec, dim) ==
    IF Len(vec) >= dim THEN vec
    ELSE vec \o [i \in 1..(dim - Len(vec)) |-> 0]

\* _ensure_dim on a list: unchanged, truncated, or padded with zeros.
EnsureDim(vec, dim) ==
    IF Len(vec) = dim THEN vec
    ELSE IF Len(vec) > dim THEN SubSeq(vec, 1, dim)
    ELSE vec \o [i \in 1..(dim - Len(vec)) |-> 0]

RatMul(p, q) == Rat(p.num * q.num, p.den * q.den)

RatMin(p, q) == IF RatLess(q, p) THEN q ELSE p

\* Faulty variant of CalculateConfidenceScore: the product is not capped.
CalculateConfidenceScoreNoCap(context_similarity, answer_length) ==
    LET length_factor ==
            IF answer_length < 50 THEN Rat(answer_length, 50)
            ELSE IF answer_length > 1000 THEN Rat(1000, answer_length)
            ELSE One
    IN  RatMul(context_similarity, length_factor)

\* calculate_confidence_score
CalculateConfidenceScore(context_similarity, answer_length) ==
    LET length_factor ==
            IF answer_length < 50 THEN Rat(answer_length, 50)
            ELSE IF answer_length > 1000 THEN Rat(1000, answer_length)
            ELSE One
    IN  RatMin(RatMul(context_similarity, length_factor), One)

\* round(x, 3): the nearest multiple of 1/1000, ties to the even one.
Round3(x) ==
    LET n == x.num * 1000
        q == n \div x.den
        r == n % x.den
        up == IF 2 * r > x.den THEN 1
              ELSE IF 2 * r = x.den THEN q % 2
              ELSE 0
    IN  Rat(q + up, 1000)

(***************************************************************************)
(* The two pure functions on their own: every state of SpecPure holds one  *)
(* call, first pending and then with its result.                           *)
(***************************************************************************)
\* Longest vector and largest target dimension handed to _ensure_dim.
MaxVecLen == 3
MaxDim == 4

Components == {-1, 0, 2}

VecPool == UNION { [1..n -> Components] : n \in 0..MaxVecLen }

\* Similarities (also outside [0, 1]) and answer lengths around the two
\* thresholds of the length factor.
Similarities ==
    { Rat(-1, 2), Zero, Rat(1, 4), Rat(3, 5), One, Rat(3, 2) }

AnswerLengths == {0, 1, 25, 49, 50, 51, 1000, 1001, 2000}

InitPure ==
    /\ GOOGLE_API_KEY = FALSE
    /\ vectors = <<>>
    /\ last \in [op : {"ensure_dim_call"}, vec : VecPool, dim : 0..MaxDim]
               \cup [op : {"score_call"}, context_similarity : Similarities,
                     answer_length : AnswerLengths]
    /\ flow = NoFlow

\* _ensure_dim(vec, dim)
EnsureDimCall ==
    /\ last.op = "ensure_dim_call"
    /\ last' = [op |-> "ensure_dim", vec |-> last.vec, dim |-> last.dim,
                result |-> EnsureDim(last.vec, last.dim)]
    /\ UNCHANGED <<GOOGLE_API_KEY, vectors, flow>>

\* calculate_confidence_score(context_similarity, answer_length)
ScoreCall ==
    /\ last.op = "score_call"
    /\ last' = [op |-> "calculate_confidence_score",
                context_similarity |-> last.context_similarity,
                answer_length |-> last.answer_length,
                result |-> CalculateConfidenceScore(last.context_similarity,
                                                    last.answer_length)]
    /\ UNCHANGED <<GOOGLE_API_KEY, vectors, flow>>

NextPure == EnsureDimCall \/ ScoreCall

SpecPure == InitPure /\ [][NextPure]_vars

(***************************************************************************)
(* Metrics hand-off (services.py:95-107).                                  *)
(***************************************************************************)
SinkOutcomes == {"accepted", "rejected", "timeout", "unreachable"}

\* Faulty variant of SubmitMetrics: a failed delivery is raised to the caller.
SubmitMetricsRaises(metrics, sink) ==
    [raised |-> sink # "accepted", ok |-> sink = "accepted",
     posted |-> <<metrics>>]

\* submit_metrics: one POST of the record; every exception (timeout,
\* connection error, HTTP error status) is caught and gives False.
SubmitMetrics(metrics, sink) ==
    [raised |-> FALSE, ok |-> sink = "accepted", posted |-> <<metrics>>]

QueryMetrics(tokens_consumed, tokens_generated, confidence_score, status) ==
    [tokens_consumed |-> tokens_consumed,
     tokens_generated |-> tokens_generated,
     confidence_score |-> confidence_score, status |-> status]

(***************************************************************************)
(* The flows of the orchestrator (services.py:184-379).                    *)
(***************************************************************************)
\* The flows do not observe the length of a backoff sleep.
NoJitter == [i \in 1..Retries |-> 0]

Failure(reason) == [kind |-> "error", reason |-> reason]

\* The records process_and_embed builds for the chunks, in order;
\* oracle[i] is what the embedding service answers for chunk i.
ChunkRecords(chunks, pdf_id, key, oracle) ==
    [i \in 1..Len(chunks) |->
        LET e   == EmbedWithRetry(chunks[i], key, oracle[i], NoJitter).vec
            emb == IF e = <<>> THEN CheapEmbed(chunks[i], TARGET_EMBED_DIM)
                   ELSE e
        IN  [id |-> <<pdf_id, "-", i - 1>>,
             values |-> EnsureDim(emb, TARGET_EMBED_DIM),
             metadata |-> [text |-> chunks[i], pdf_id |-> pdf_id]]]

\* services.py:205 and 214: the message of the exception process_and_embed
\* raises when no vector was built, as the pieces of the two f-strings.
NoVectorsReason(pdf_id) ==
    <<"Error processing document ", pdf_id, ": ",
      "No vectors generated for document ", pdf_id>>

\* Faulty variant of ProcessAndEmbedRun: an empty record list is upserted
\* and reported as a success.
ProcessAndEmbedRunNoCheck(vs, key, text, pdf_id, oracle) ==
    LET recs == ChunkRecords(SplitText(text), pdf_id, key, oracle)
    IN  [result |-> [kind |-> "ok"], vectors |-> UpsertVectors(vs, recs),
         upserts |-> 1]

\* Faulty variant of ProcessAndEmbedRun: the records the document already
\* has are deleted first, also when the call then fails.
ProcessAndEmbedRunDeleteFirst(vs, key, text, pdf_id, oracle) ==
    LET recs == ChunkRecords(SplitText(text), pdf_id, key, oracle)
        kept == SelectSeq(vs, LAMBDA r : r.metadata.pdf_id # pdf_id)
    IN  IF recs = <<>>
        THEN [result |-> Failure(NoVectorsReason(pdf_id)), vectors |-> kept,
              upserts |-> 0]
        ELSE [result |-> [kind |-> "ok"],
              vectors |-> UpsertVectors(kept, recs), upserts |-> 1]

\* process_and_embed(text, pdf_id): the outcome and the index it leaves.
ProcessAndEmbedRun(vs, key, text, pdf_id, oracle) ==
    LET chunks == SplitText(text)
        recs   == ChunkRecords(chunks, pdf_id, key, oracle)
    IN  IF recs = <<>>
        THEN [result |-> Failure(NoVectorsReason(pdf_id)), vectors |-> vs,
              upserts |-> 0]
        ELSE [result |-> [kind |-> "ok"],
              vectors |-> UpsertVectors(vs, recs), upserts |-> 1]

RECURSIVE MaxScore(_, _)
MaxScore(matches, acc) ==
    IF matches = <<>> THEN acc
    ELSE MaxScore(Tail(matches), RatMax(acc, Head(matches).score))

RECURSIVE SumScore(_)
SumScore(matches) ==
    IF matches = <<>> THEN Zero
    ELSE RatAdd(Head(matches).score, SumScore(Tail(matches)))

Texts(matches) == [i \in 1..Len(matches) |-> matches[i].metadata.text]

\* The except branch of query_documents: the failed record is handed to the
\* sink and the error is raised.
\* Faulty variant of QueryDocumentsFail: the words of the prompt are counted
\* as consumed although the failure came before the generation.
QueryDocumentsFailCounted(reason, tokens_consumed, tokens_generated, sink, base) ==
    LET sub == SubmitMetrics(
                   QueryMetrics(PromptWords, tokens_generated, Zero,
                                "failed"), sink)
    IN  [base EXCEPT !.result = Failure(reason),
                     !.posted = base.posted \o sub.posted]

QueryDocumentsFail(reason, tokens_consumed, tokens_generated, sink, base) ==
    LET sub == SubmitMetrics(
                   QueryMetrics(tokens_consumed, tokens_generated, Zero,
                                "failed"), sink)
    IN  [base EXCEPT !.result = Failure(reason),
                     !.posted = base.posted \o sub.posted]

\* query_documents(doc_ids, question).  embed: the outcomes of the embedding
\* service; gen: the outcome of model.generate_content; sink: the outcome of
\* the POST to the metrics sink.
QueryDocumentsRun(vs, key, doc_ids, question, embed, gen, sink) ==
    LET e    == EmbedWithRetry(question, key, embed, NoJitter)
        none == [result |-> Failure("unset"), queried |-> FALSE,
                 matches |-> <<>>, qvec |-> <<>>, embedTrace |-> e.trace,
                 genTrace |-> <<>>, posted |-> <<>>, sink |-> sink]
    IN  IF e.vec = <<>>
        THEN QueryDocumentsFail("Failed to generate question embedding",
                                0, 0, sink, none)
        ELSE
        LET qvec    == EnsureDim(e.vec, TARGET_EMBED_DIM)
            matches == Query(vs, qvec, TopKQueryDocuments,
                             [kind |-> "in",
                              val |-> {doc_ids[i] : i \in 1..Len(doc_ids)}])
            contexts == Texts(matches)
            max_similarity == MaxScore(matches, Zero)
            asked   == [none EXCEPT !.queried = TRUE, !.matches = matches,
                                    !.qvec = qvec]
        IN  IF contexts = <<>>
            THEN QueryDocumentsFail("No relevant contexts found", 0, 0, sink,
                                    asked)
            ELSE
            LET called == [asked EXCEPT !.genTrace = <<gen>>]
            IN  IF gen.kind = "error"
                THEN QueryDocumentsFail("generation failed", 0, 0, sink,
                                        called)
                ELSE
                LET answer == gen.value.text
                    tokens_consumed ==
                        PromptWords + WordCount(Join(contexts, <<" ">>))
                          + WordCount(question)
                    tokens_generated == WordCount(answer)
                    confidence_score ==
                        CalculateConfidenceScore(max_similarity, Len(answer))
                    sub == SubmitMetrics(
                               QueryMetrics(tokens_consumed, tokens_generated,
                                            confidence_score, "completed"),
                               sink)
                    sent == [called EXCEPT !.posted = sub.posted]
                IN  IF sub.raised
                    THEN QueryDocumentsFail("metrics delivery failed",
                                            tokens_consumed, tokens_generated,
                                            sink, sent)
                    ELSE [sent EXCEPT !.result =
                             [kind |-> "answer", answer |-> answer,
                              tokens_consumed |-> tokens_consumed,
                              tokens_generated |-> tokens_generated,
                              confidence_score |-> confidence_score]]

\* services.py:356: the rate-limit signal of generate_with_retry.
GenRateLimited(o) == o.kind = "error" /\ ("429" \in o.msg \/ "rate" \in o.msg)

\* generate_with_retry: the outcomes of the calls made, in order; the last
\* one is the response, or the exception that is raised.
RECURSIVE GenerateWithRetry(_, _, _)
GenerateWithRetry(gen, attempt, trace) ==
    IF attempt >= Retries THEN trace
    ELSE LET o == gen[attempt + 1]
             t == Append(trace, o)
         IN  IF o.kind = "error" /\ GenRateLimited(o)
             THEN GenerateWithRetry(gen, attempt + 1, t)
             ELSE t

\* process_query(query, pdf_id).  embed: the outcomes of the embedding
\* service; gen: the outcomes of the successive model.generate_content calls.
ProcessQueryRun(vs, key, query, pdf_id, embed, gen) ==
    LET e    == EmbedWithRetry(query, key, embed, NoJitter)
        none == [result |-> Failure("unset"), queried |-> FALSE,
                 matches |-> <<>>, qvec |-> <<>>, embedTrace |-> e.trace,
                 genTrace |-> <<>>, posted |-> <<>>, sink |-> "unused"]
    IN  IF e.vec = <<>>
        THEN [none EXCEPT !.result = Failure("Embedding failed")]
        ELSE
        LET qvec    == EnsureDim(e.vec, TARGET_EMBED_DIM)
            matches == Query(vs, qvec, TopKProcessQuery,
                             [kind |-> "eq", val |-> pdf_id])
            contexts == Texts(matches)
            confidence ==
                IF matches = <<>> THEN Zero
                ELSE RatMul(SumScore(matches), Rat(1, Len(matches)))
            context_text ==
                IF contexts = <<>> THEN NoContextText
                ELSE Join(contexts, <<"\n", "\n">>)
            asked   == [none EXCEPT !.queried = TRUE, !.matches = matches,
                                    !.qvec = qvec]
        IN  IF ~key
            THEN [asked EXCEPT !.result =
                     [kind |-> "answer", answer |-> context_text,
                      tokens_consumed |-> 0,
                      tokens_generated |-> WordCount(context_text),
                      confidence_score |-> Round3(confidence)]]
            ELSE
            LET trace  == GenerateWithRetry(gen, 0, <<>>)
                final  == trace[Len(trace)]
                called == [asked EXCEPT !.genTrace = trace]
            IN  IF final.kind = "error"
                THEN [called EXCEPT !.result = Failure("generation failed")]
                ELSE [called EXCEPT !.result =
                         [kind |-> "answer", answer |-> final.value.text,
                          tokens_consumed |-> final.value.prompt_token_count,
                          tokens_generated |->
                              final.value.candidates_token_count,
                          confidence_score |-> Round3(confidence)]]

(***************************************************************************)
(* Inputs of the flows.                                                    *)
(***************************************************************************)
\* Document texts: the first n characters of "xyz...".
TextPool ==
    { SubSeq(<<"x", "y", "z", "x", "y", "z">>, 1, n) : n \in {0, 1, MaxTextLen} }

Questions == { <<"x">> }

DocIdLists == { <<"a">>, <<"a", "b">> }

\* What the embedding service answers to the attempts of one call of a query
\* flow: a vector longer than the index dimension, an empty embedding, a
\* rate limit followed by a vector shorter than the index dimension (remote
\* embeddings have components of both signs).
EmbedOracles ==
    { [i \in 1..Retries |-> Ok(<<3, 4, 0, 0>>)],
      [i \in 1..Retries |-> Ok(<<>>)],
      [i \in 1..Retries |-> IF i = 1 THEN Err({"429"}) ELSE Ok(<<-1>>)] }

\* The same for a chunk of the index flow: a vector, or a hard error.
IndexEmbedOracles ==
    { [i \in 1..Retries |-> Ok(<<3, 4, 0, 0>>)],
      [i \in 1..Retries |-> Err({})] }

\* Without a credential the embedding service is never called.
OraclesFor(key, pool) == IF key THEN pool ELSE {[i \in 1..Retries |-> Err({})]}

Response(text, consumed, generated) ==
    Ok([text |-> text, prompt_token_count |-> consumed,
        candidates_token_count |-> generated])

GenOutcomes == { Response(<<"o", "k">>, 7, 1), Err({"429"}), Err({}) }

GenOracles ==
    { [i \in 1..Retries |-> Response(<<"o", "k">>, 7, 1)],
      [i \in 1..Retries |-> Err({"429"})],
      [i \in 1..Retries |-> Err({})],
      [i \in 1..Retries |->
          IF i = 1 THEN Err({"429"}) ELSE Response(<<"o", "k">>, 7, 1)],
      [i \in 1..Retries |->
          IF i = 1 THEN Err({"rate"}) ELSE Response(<<"o", "k">>, 7, 1)] }

\* process_and_embed(text, pdf_id)
ProcessAndEmbed ==
    \E text \in TextPool, pdf_id \in DocIds :
      \E oracle \in [1..Len(SplitText(text)) ->
                        OraclesFor(GOOGLE_API_KEY, IndexEmbedOracles)] :
        LET run == ProcessAndEmbedRun(vectors, GOOGLE_API_KEY, text, pdf_id,
                                      oracle)
        IN  /\ Len(run.vectors) <= MaxIndexed
            /\ vectors' = run.vectors
            /\ last' = [op |-> "process_and_embed",
                        call |-> [text |-> text, pdf_id |-> pdf_id],
                        result |-> run.result, upserts |-> run.upserts]
            /\ UNCHANGED <<GOOGLE_API_KEY, flow>>

\* query_documents(doc_ids, question)
QueryDocuments ==
    \E doc_ids \in DocIdLists, question \in Questions,
       embed \in OraclesFor(GOOGLE_API_KEY, EmbedOracles),
       gen \in GenOutcomes, sink \in SinkOutcomes :
        /\ last' = [op |-> "query_documents",
                    call |-> [doc_ids |-> doc_ids, question |-> question,
                              embed |-> embed, gen |-> gen]]
                     @@ QueryDocumentsRun(vectors, GOOGLE_API_KEY, doc_ids,
                                          question, embed, gen, sink)
        /\ UNCHANGED <<GOOGLE_API_KEY, vectors, flow>>

\* process_query(query, pdf_id)
ProcessQuery ==
    \E query \in Questions, pdf_id \in DocIds,
       embed \in OraclesFor(GOOGLE_API_KEY, EmbedOracles),
       gen \in GenOracles :
        /\ last' = [op |-> "process_query",
                    call |-> [query |-> query, pdf_id |-> pdf_id,
                              embed |-> embed, gen |-> gen]]
                     @@ ProcessQueryRun(vectors, GOOGLE_API_KEY, query, pdf_id,
                                        embed, gen)
        /\ UNCHANGED <<GOOGLE_API_KEY, vectors, flow>>

Next == ProcessAndEmbed \/ QueryDocuments \/ ProcessQuery

Spec == Init /\ [][Next]_vars

(***************************************************************************)
(* The indexing endpoint (src/rag_module/main.py:35-56).                   *)
(***************************************************************************)
\* Longest document_ids list of a request.
MaxRequest == 2

RequestLists == UNION { [1..n -> DocIds] : n \in 0..MaxRequest }

\* main.py:50: "Dummy text for testing", a text that fits one chunk.
DummyText == <<"d">>

\* What the PDF service gives for one document: nothing usable (an error,
\* a status other than 200, no text_content), a text, a text of blanks.
FetchOutcomes == { Err({}), Ok(<<"x", "y", "z">>), Ok(<<" ">>) }

\* main.py:39-50: the text handed to process_and_embed.
TextOf(fetched) ==
    IF fetched.kind = "ok" /\ fetched.value # <<>> THEN fetched.value
    ELSE DummyText

\* The loop of index_documents from position i on: an exception of
\* process_and_embed is not caught and ends the request (status 500);
\* otherwise the entry of the document is written and the loop goes on.
RECURSIVE IndexDocumentsFrom(_, _, _, _, _, _, _)
IndexDocumentsFrom(vs, key, document_ids, fetched, oracle, i, results) ==
    IF i > Len(document_ids)
    THEN [status |-> 200, results |-> results, vectors |-> vs]
    ELSE LET doc_id == document_ids[i]
             text   == TextOf(fetched[i])
             run    == ProcessAndEmbedRun(vs, key, text, doc_id,
                           [c \in 1..Len(SplitText(text)) |-> oracle])
         IN  IF run.result.kind = "error"
             THEN [status |-> 500, results |-> <<>>, vectors |-> run.vectors]
             ELSE IndexDocumentsFrom(
                      run.vectors, key, document_ids, fetched, oracle, i + 1,
                      [d \in DOMAIN results \cup {doc_id} |->
                          IF d = doc_id
                          THEN IF run.result.kind = "ok" THEN "success"
                               ELSE "failed"
                          ELSE results[d]])

\* POST /rag/index
IndexDocuments ==
    \E document_ids \in RequestLists,
       oracle \in OraclesFor(GOOGLE_API_KEY, IndexEmbedOracles) :
      \E fetched \in [1..Len(document_ids) -> FetchOutcomes] :
        LET run == IndexDocumentsFrom(vectors, GOOGLE_API_KEY, document_ids,
                                      fetched, oracle, 1, <<>>)
        IN  /\ Len(run.vectors) <= MaxIndexed
            /\ vectors' = run.vectors
            /\ last' = [op |-> "index_documents",
                        document_ids |-> document_ids, fetched |-> fetched,
                        status |-> run.status, results |-> run.results]
            /\ UNCHANGED <<GOOGLE_API_KEY, flow>>

NextApi == IndexDocuments

SpecApi == Init /\ [][NextApi]_vars

(***************************************************************************)
(* The index flow beside a query.  One process_and_embed call is followed  *)
(* through its steps (one remote embedding attempt, one backoff sleep, the *)
(* upsert) while a LocalIndex.query call on another thread is followed     *)
(* through its loop (QueryStart, QueryStep, QueryEnd above).               *)
(***************************************************************************)
\* What the embedding service answers to one attempt of the index flow.
FlowEmbedOutcomes == { Ok(<<3, 4, 0, 0>>), Err({"429"}), Err({}) }

\* services.py:196-203: the record of the chunk the flow is at, built from
\* the embedding emb (empty: none was obtained).
FlowRecord(f, emb) ==
    LET chunk == f.chunks[Len(f.built) + 1]
        e     == IF emb = <<>> THEN CheapEmbed(chunk, TARGET_EMBED_DIM)
                 ELSE emb
    IN  [id |-> <<f.pdf_id, "-", Len(f.built)>>,
         values |-> EnsureDim(e, TARGET_EMBED_DIM),
         metadata |-> [text |-> chunk, pdf_id |-> f.pdf_id]]

\* The flow goes on to the next chunk with the record of this one.
FlowBuilt(f, emb) ==
    [f EXCEPT !.pc = "embed", !.attempt = 0,
              !.built = Append(@, FlowRecord(f, emb))]

\* process_and_embed is entered: the text is split, vectors = [].
FlowStart ==
    \E text \in TextPool, pdf_id \in DocIds :
        /\ flow.pc \in {"idle", "done", "failed"}
        /\ Len(vectors) + Len(SplitText(text)) <= MaxScanned
        /\ flow' = [pc |-> "embed", pdf_id |-> pdf_id,
                    chunks |-> SplitText(text), built |-> <<>>,
                    attempt |-> 0, written |-> 0]
        /\ UNCHANGED <<GOOGLE_API_KEY, vectors, last>>

\* One attempt of embed_with_retry for the current chunk: without a
\* credential the local vector at once; with one, a remote call that gives
\* a vector, a rate limit (the flow goes to sleep) or another failure (the
\* local vector).
FlowEmbed ==
    /\ flow.pc = "embed"
    /\ Len(flow.built) < Len(flow.chunks)
    /\ IF ~GOOGLE_API_KEY
       THEN flow' = FlowBuilt(flow, <<>>)
       ELSE \E o \in FlowEmbedOutcomes :
               flow' = IF o.kind = "ok" THEN FlowBuilt(flow, o.value)
                       ELSE IF EmbedRateLimited(o)
                            THEN [flow EXCEPT !.pc = "sleep"]
                            ELSE FlowBuilt(flow, <<>>)
    /\ UNCHANGED <<GOOGLE_API_KEY, vectors, last>>

\* The backoff sleep is over: the next attempt, or, after the last one,
\* the local vector.
FlowWake ==
    /\ flow.pc = "sleep"
    /\ flow' = IF flow.attempt + 1 < Retries
               THEN [flow EXCEPT !.pc = "embed", !.attempt = @ + 1]
               ELSE FlowBuilt(flow, <<>>)
    /\ UNCHANGED <<GOOGLE_API_KEY, vectors, last>>

\* services.py:204-205: no record was built, the call raises.
FlowFail ==
    /\ flow.pc = "embed"
    /\ Len(flow.built) = Len(flow.chunks)
    /\ flow.built = <<>>
    /\ flow' = [pc |-> "failed", pdf_id |-> flow.pdf_id, written |-> 0]
    /\ UNCHANGED <<GOOGLE_API_KEY, vectors, last>>

\* Faulty variant of FlowUpsert: the records are upserted one call each.
FlowUpsertOneByOne ==
    /\ flow.pc = "embed"
    /\ Len(flow.built) = Len(flow.chunks)
    /\ flow.built # <<>>
    /\ vectors' = UpsertVectors(vectors, <<Head(flow.built)>>)
    /\ flow' = IF Len(flow.built) = 1
               THEN [pc |-> "done", pdf_id |-> flow.pdf_id,
                     first |-> Len(vectors) + 1 - flow.written,
                     written |-> flow.written + 1]
               ELSE [flow EXCEPT !.built = Tail(@), !.chunks = Tail(@),
                                 !.written = @ + 1]
    /\ UNCHANGED <<GOOGLE_API_KEY, last>>

\* services.py:207: index.upsert(vectors=vectors), the one write of the
\* call, and the return.
FlowUpsert ==
    /\ flow.pc = "embed"
    /\ Len(flow.built) = Len(flow.chunks)
    /\ flow.built # <<>>
    /\ vectors' = UpsertVectors(vectors, flow.built)
    /\ flow' = [pc |-> "done", pdf_id |-> flow.pdf_id,
                first |-> Len(vectors) + 1, written |-> Len(flow.built)]
    /\ UNCHANGED <<GOOGLE_API_KEY, last>>

NextFlow ==
    \/ FlowStart \/ FlowEmbed \/ FlowWake \/ FlowFail \/ FlowUpsert
    \/ QueryStart \/ QueryStep \/ QueryEnd

SpecFlow == Init /\ [][NextFlow]_vars

(***************************************************************************)
(* Claims about the vector index (checked under SpecIndex).                *)
(***************************************************************************)
\* What a document-id filter admits, as the specification words it.
Admits(filter, pdf_id) ==
    \/ filter.kind = "none"
    \/ filter.kind = "eq" /\ pdf_id = filter.val
    \/ filter.kind = "in" /\ pdf_id \in filter.val

\* C1: after any sequence of upsert calls the index holds at most one record
\* per id (an upsert of a stored id replaces the stored record).
C1_AtMostOneRecordPerId ==
    \A i, j \in 1..Len(vectors) : vectors[i].id = vectors[j].id => i = j

\* C2: every match of a query with a document-id filter ($eq d or $in S)
\* carries a metadata pdf_id equal to d, respectively a member of S.
C2_FilterCorrect ==
    (last.op = "query" /\ last.filter.kind # "none") =>
        \A i \in 1..Len(last.matches) :
            /\ last.filter.kind = "eq" =>
                   last.matches[i].metadata.pdf_id = last.filter.val
            /\ last.filter.kind = "in" =>
                   last.matches[i].metadata.pdf_id \in last.filter.val

\* C2 witness: a query for {a, b} on an index holding records of a and records
\* outside the filter, none of b, returned matches.
C2_Witness ==
    /\ last.op = "query"
    /\ last.filter = [kind |-> "in", val |-> {"a", "b"}]
    /\ last.matches # <<>>
    /\ \E i \in 1..Len(vectors) : vectors[i].metadata.pdf_id \notin {"a", "b"}
    /\ \A i \in 1..Len(vectors) : vectors[i].metadata.pdf_id # "b"

\* C3: a query returns exactly min(top_k, number of records passing the
\* filter) matches, by non-increasing score, each the projection of a passing
\* record, and every passing record with a score strictly above the lowest
\* returned score is returned; with no passing record the result is empty.
C3_TopK ==
    last.op = "query" =>
        LET m     == last.matches
            cand  == {i \in 1..Len(vectors) :
                         Admits(last.filter, vectors[i].metadata.pdf_id)}
            sc(i) == Cosine(last.vector, vectors[i].values)
            low   == m[Len(m)].score
        IN  /\ Len(m) = Min(last.top_k, Cardinality(cand))
            /\ \A i \in 1..(Len(m) - 1) : ~RatLess(m[i].score, m[i + 1].score)
            /\ \A i \in 1..Len(m) :
                   \E c \in cand :
                       m[i] = [metadata |-> vectors[c].metadata, score |-> sc(c)]
            /\ Len(m) > 0 =>
                   Cardinality({c \in cand : RatLess(low, sc(c))})
                     = Cardinality({i \in 1..Len(m) : RatLess(low, m[i].score)})
            /\ cand = {} => m = <<>>

\* C3 witness: more records pass the filter than top_k, with different
\* scores, and the query returned exactly top_k of them.
C3_Witness ==
    /\ last.op = "query"
    /\ Len(last.matches) = last.top_k
    /\ Cardinality({i \in 1..Len(vectors) :
                       Admits(last.filter, vectors[i].metadata.pdf_id)})
         > last.top_k
    /\ \E i \in 1..Len(vectors) :
           /\ Admits(last.filter, vectors[i].metadata.pdf_id)
           /\ RatLess(Cosine(last.vector, vectors[i].values),
                      last.matches[Len(last.matches)].score)

(***************************************************************************)
(* Claims about the embedding provider (checked under SpecEmbed).          *)
(***************************************************************************)
\* The rate-limit signal of the embedding call, as the specification has it.
IsRateLimit(o) == o.kind = "error" /\ "429" \in o.msg

\* The attempts (1-based) whose outcome is not a rate-limit signal.
FinalAttempts(outcomes) == {k \in 1..Retries : ~IsRateLimit(outcomes[k])}

FirstFinal(outcomes) ==
    CHOOSE k \in FinalAttempts(outcomes) :
        \A j \in FinalAttempts(outcomes) : k <= j

\* C7: embed_with_retry never raises; a remote failure that is no rate-limit
\* signal gives the local vector at once (no further remote call), rate
\* limits on all attempts give the local vector, and without a credential
\* the local vector is returned with no remote call at all.
C7_EmbedNeverRaises ==
    last.op = "embed" =>
        LET r     == last.result
            local == CheapEmbed(last.content, TARGET_EMBED_DIM)
            out   == last.outcomes
        IN  /\ ~r.raised
            /\ ~GOOGLE_API_KEY => (r.vec = local /\ r.trace = <<>>)
            /\ (GOOGLE_API_KEY /\ FinalAttempts(out) = {}) =>
                   (r.vec = local /\ Len(r.trace) = Retries)
            /\ (GOOGLE_API_KEY /\ FinalAttempts(out) # {}
                  /\ out[FirstFinal(out)].kind = "error") =>
                   (r.vec = local /\ Len(r.trace) = FirstFinal(out))

\* C7 witness: with a credential, a rate limit and then a failure that is no
\* rate-limit signal; the call returned the local vector after two calls.
C7_Witness ==
    /\ last.op = "embed"
    /\ GOOGLE_API_KEY
    /\ last.outcomes[1] = Err({"429"})
    /\ last.outcomes[2] = Err({"rate"})
    /\ last.result.vec = CheapEmbed(last.content, TARGET_EMBED_DIM)
    /\ Len(last.result.trace) = 2
    /\ ~last.result.raised

\* C8: one call of embed_with_retry makes at most `retries` remote calls, a
\* further call only after a rate-limit signal on the one before, with a
\* wait of delay * attempt_number + jitter, jitter in [0, 2], before it; and
\* every call runs to its end.
C8_BoundedRetries ==
    /\ last.op = "embed_call" => ENABLED Embed
    /\ last.op = "embed" =>
        LET r == last.result
        IN  /\ Len(r.trace) <= Retries
            /\ \A i \in 2..Len(r.trace) :
                   /\ IsRateLimit(r.trace[i - 1])
                   /\ Len(r.sleeps) >= i - 1
                   /\ r.sleeps[i - 1] >= Delay * (i - 1)
                   /\ r.sleeps[i - 1] <= Delay * (i - 1) + MaxJitter

\* C8 witness: every attempt was rate-limited; three calls, the third one
\* reached after two waits.
C8_Witness ==
    /\ last.op = "embed"
    /\ Len(last.result.trace) = Retries
    /\ \A i \in 1..Retries : IsRateLimit(last.result.trace[i])
    /\ Len(last.result.sleeps) >= Retries - 1

(***************************************************************************)
(* Claims about the query flows (checked under Spec).                      *)
(***************************************************************************)
QueryFlows == {"query_documents", "process_query"}

\* C4: in every query flow, when the index query returns no match, the flow
\* ends in an explicit failure ("no relevant contexts found") and returns
\* no answer.
C4_NoMatchFails ==
    (last.op \in QueryFlows /\ last.queried /\ last.matches = <<>>) =>
        last.result = Failure("No relevant contexts found")

\* C5: every invocation of a query flow hands exactly one Metrics Record to
\* the sink, with status completed exactly when the flow returned an answer.
C5_OneMetricsRecord ==
    last.op \in QueryFlows =>
        /\ Len(last.posted) = 1
        /\ last.posted[1].status = "completed" <=> last.result.kind = "answer"

\* C6: the outcome of a query flow is the same whether the metrics sink
\* accepts the record, rejects it, times out or is unreachable.
C6_MetricsFailureIgnored ==
    /\ last.op = "query_documents" =>
          \A sink \in SinkOutcomes :
              QueryDocumentsRun(vectors, GOOGLE_API_KEY, last.call.doc_ids,
                                last.call.question, last.call.embed,
                                last.call.gen, sink).result = last.result
    /\ last.op \in QueryFlows =>
          (last.result.kind = "error" =>
               last.result.reason # "metrics delivery failed")

\* C6 witness: a query_documents call whose metrics record the sink did not
\* take returned its answer.
C6_Witness ==
    /\ last.op = "query_documents"
    /\ last.sink = "timeout"
    /\ Len(last.posted) = 1
    /\ last.result.kind = "answer"

\* C9: with a remote credential, answer generation in every query flow
\* treats as a rate-limit signal what the embedding retries treat as one,
\* retries a rate-limited call up to 3 attempts in total and fails on
\* exhaustion, and fails after a single attempt on any other failure.
C9_GenerationRetryPolicy ==
    (last.op \in QueryFlows /\ GOOGLE_API_KEY /\ last.genTrace # <<>>) =>
        LET t     == last.genTrace
            final == t[Len(t)]
        IN  /\ Len(t) <= Retries
            /\ \A i \in 1..(Len(t) - 1) : IsRateLimit(t[i])
            /\ IsRateLimit(final) => Len(t) = Retries
            /\ final.kind = "error" => last.result.kind = "error"

\* The concatenation of the texts of the matches, in rank order, each
\* separated from the next by a blank line.
Concatenation(matches) == Join(Texts(matches), <<"\n", "\n">>)

\* C10: without a remote credential every successful query flow makes no
\* generative-model call, returns tokens_consumed = 0 and answers with the
\* concatenation of the texts of the retrieved matches.
C10_LocalAnswer ==
    (last.op \in QueryFlows /\ ~GOOGLE_API_KEY /\ last.result.kind = "answer")
        => /\ last.genTrace = <<>>
           /\ last.result.tokens_consumed = 0
           /\ last.result.answer = Concatenation(last.matches)

\* A float of the closed interval [0, 1].
InUnit(x) == x.num >= 0 /\ x.num <= x.den

\* C11: the confidence_score of every response and of every Metrics Record
\* produced by a query flow lies in [0, 1].
C11_ConfidenceInUnit ==
    last.op \in QueryFlows =>
        /\ last.result.kind = "answer" => InUnit(last.result.confidence_score)
        /\ \A i \in 1..Len(last.posted) : InUnit(last.posted[i].confidence_score)

(***************************************************************************)
(* Claims about the pure functions (checked under SpecPure).               *)
(***************************************************************************)
\* C12: _ensure_dim(v, dim) has length exactly dim: the first dim
\* components of a longer v, a shorter v followed by dim - len(v) zeros, v
\* itself when the lengths agree; and the call always returns.
C12_EnsureDimLength ==
    /\ last.op = "ensure_dim_call" => ENABLED EnsureDimCall
    /\ last.op = "ensure_dim" =>
        LET v == last.vec
            d == last.dim
            r == last.result
        IN  /\ Len(r) = d
            /\ \A i \in 1..d : r[i] = IF i <= Len(v) THEN v[i] ELSE 0
            /\ Len(v) = d => r = v

\* C12 witness: a vector shorter than the dimension, with a non-zero
\* component, was padded by at least two zeros.
C12_Witness ==
    /\ last.op = "ensure_dim"
    /\ last.vec # <<>>
    /\ last.vec[1] # 0
    /\ Len(last.vec) + 2 <= last.dim
    /\ Len(last.result) = last.dim

\* x = y for floats whose denominators are positive.
RatEq(x, y) == x.num * y.den = y.num * x.den

\* C20: calculate_confidence_score(s, n) = min(s * f, 1) with f = n / 50
\* for n < 50, f = 1 for 50 <= n <= 1000 and f = 1000 / n for n > 1000;
\* hence score(s, 50) = s and score(s, 1000) = s for s in [0, 1], and
\* score(s, 0) = 0.
C20_ScoreFormula ==
    last.op = "calculate_confidence_score" =>
        LET s == last.context_similarity
            n == last.answer_length
            r == last.result
            \* s * f as a fraction pn / pd, pd > 0
            pn == IF n < 50 THEN s.num * n
                  ELSE IF n > 1000 THEN s.num * 1000 ELSE s.num
            pd == IF n < 50 THEN s.den * 50
                  ELSE IF n > 1000 THEN s.den * n ELSE s.den
        IN  /\ pn <= pd => r.num * pd = pn * r.den
            /\ pn > pd => r = One
            /\ (n \in {50, 1000} /\ InUnit(s)) => r = s
            /\ n = 0 => r = Zero

\* C20 witness: a long answer scaled the similarity down by 1000 / n.
C20_Witness ==
    /\ last.op = "calculate_confidence_score"
    /\ last.answer_length = 2000
    /\ last.context_similarity = Rat(3, 5)
    /\ last.result = Rat(3, 10)

(***************************************************************************)
(* Claims about the index flow (checked under Spec).                       *)
(***************************************************************************)
\* C13: process_and_embed(text, document_id) succeeds exactly when the
\* chunker produced at least one chunk, and then one record per chunk was
\* upserted in one call; when no chunk is produced it fails with a reason
\* that names the document and leaves the index as it was.
C13_IndexFlowOutcome ==
    [][ last'.op = "process_and_embed" =>
          LET d      == last'.call.pdf_id
              chunks == SplitText(last'.call.text)
              n      == Len(chunks)
              reason == last'.result.reason
          IN  /\ last'.result.kind = "ok" <=> n >= 1
              /\ n >= 1 =>
                    /\ last'.upserts = 1
                    /\ Len(vectors') = Len(vectors) + n
                    /\ SubSeq(vectors', 1, Len(vectors)) = vectors
                    /\ \A i \in 1..n :
                          LET r == vectors'[Len(vectors) + i]
                          IN  /\ r.id = <<d, "-", i - 1>>
                              /\ r.metadata = [text |-> chunks[i], pdf_id |-> d]
              /\ n = 0 =>
                    /\ last'.result.kind = "error"
                    /\ \E k \in 1..Len(reason) : reason[k] = d
                    /\ last'.upserts = 0
                    /\ vectors' = vectors ]_vars

\* C13 witness: a call on the empty text failed on an index that already
\* held a record.
C13_Witness ==
    /\ last.op = "process_and_embed"
    /\ last.call.text = <<>>
    /\ last.result.kind = "error"
    /\ last.upserts = 0
    /\ vectors # <<>>

(***************************************************************************)
(* Claims about concurrent callers of the index (SpecConcurrent).          *)
(***************************************************************************)
\* The matches of the loop of LocalIndex.query over vs, before the sort.
Scanned(vs, vector, filter) ==
    LET kept == SelectSeq2(vs, filter)
    IN  [k \in 1..Len(kept) |->
            [metadata |-> kept[k].metadata,
             score    |-> Cosine(vector, kept[k].values)]]

\* C14: under any interleaving of upsert and query calls on one LocalIndex
\* every stored record is whole (id, values, metadata), a query computes
\* its result from the records of one stored state (the list as it was
\* when its loop ended), and no upserted record is lost.
C14_ConcurrentIndex ==
    /\ [](/\ \A k \in 1..Len(vectors) :
                 /\ DOMAIN vectors[k] = {"id", "values", "metadata"}
                 /\ vectors[k] \in RecordPool
          /\ last.op = "query_scan" =>
                 /\ last.i <= Len(vectors) + 1
                 /\ last.results = Scanned(SubSeq(vectors, 1, last.i - 1),
                                           last.vector, last.filter)
          /\ last.op = "query" =>
                 /\ last.seen <= Len(vectors)
                 /\ last.matches = Query(SubSeq(vectors, 1, last.seen),
                                         last.vector, last.top_k, last.filter))
    /\ [][/\ Len(vectors') >= Len(vectors)
          /\ SubSeq(vectors', 1, Len(vectors)) = vectors]_vars

\* C14 witness: a query returned the one record its loop went over, and a
\* second record was stored after the loop had ended.
C14_Witness ==
    /\ last.op = "query"
    /\ last.seen = 1
    /\ Len(last.matches) = 1
    /\ Len(vectors) = 2

(***************************************************************************)
(* Claims about the ranking of the index (checked under SpecIndex).        *)
(***************************************************************************)
\* A direct query without filter whose vector is that of the record stored
\* last.
OwnVectorQuery ==
    /\ last.op = "query"
    /\ last.filter.kind = "none"
    /\ vectors # <<>>
    /\ last.vector = vectors[Len(vectors)].values

\* The match the record stored last gives under its own vector.
OwnMatch ==
    LET r == vectors[Len(vectors)]
    IN  [metadata |-> r.metadata, score |-> Cosine(r.values, r.values)]

\* C15 as stated: for every index state, record r and top_k >= 1, after
\* upsert([r]) the query (r.vector, top_k, no filter) returns r among its
\* matches and no returned match has a score higher than r's.
C15_RoundTrip ==
    OwnVectorQuery =>
        /\ \E j \in 1..Len(last.matches) : last.matches[j] = OwnMatch
        /\ \A j \in 1..Len(last.matches) :
               ~RatLess(OwnMatch.score, last.matches[j].score)

\* The records stored before the last one that score as high as it does
\* under its own vector.
EarlierTies ==
    { k \in 1..(Len(vectors) - 1) :
         ~RatLess(Cosine(last.vector, vectors[k].values), OwnMatch.score) }

\* C15 amended: after upsert([r]) the query (r.vector, top_k, no filter)
\* returns no match with a score higher than r's, and returns r among its
\* matches whenever fewer than top_k records stored before r score as high
\* as r.
C15_RoundTripUnlessTied ==
    OwnVectorQuery =>
        /\ \A j \in 1..Len(last.matches) :
               ~RatLess(OwnMatch.score, last.matches[j].score)
        /\ Cardinality(EarlierTies) < last.top_k =>
               \E j \in 1..Len(last.matches) : last.matches[j] = OwnMatch

\* C15 witness: the record stored last was returned ahead of an earlier
\* record of lower score that top_k cut off.
C15_Witness ==
    /\ OwnVectorQuery
    /\ Len(vectors) > last.top_k
    /\ EarlierTies = {}
    /\ last.matches[1] = OwnMatch
    /\ RatLess(Zero, OwnMatch.score)

\* The stored records a query keeps, by position, and their scores.
Candidates == { k \in 1..Len(vectors) :
                   PassesFilter(vectors[k].metadata, last.filter) }

ScoreAt(k) == Cosine(last.vector, vectors[k].values)

\* The rank of candidate k: behind the candidates of higher score and the
\* earlier-stored candidates of equal score.
RankOf(k) ==
    1 + Cardinality({ j \in Candidates :
                         \/ RatLess(ScoreAt(k), ScoreAt(j))
                         \/ (ScoreAt(j) = ScoreAt(k) /\ j < k) })

\* C19: among the stored records that pass the filter with equal scores,
\* LocalIndex.query ranks and truncates by insertion order: the record
\* upserted earlier comes first, and when top_k cuts between them the
\* earlier one is returned.
C19_TiesInInsertionOrder ==
    last.op = "query" =>
        /\ Len(last.matches) = Min(last.top_k, Cardinality(Candidates))
        /\ \A k \in Candidates :
               RankOf(k) <= last.top_k =>
                   last.matches[RankOf(k)] =
                       [metadata |-> vectors[k].metadata, score |-> ScoreAt(k)]

\* C19 witness: two candidates with different texts and equal score, the
\* earlier one returned as the last match and the later one cut off.
C19_Witness ==
    /\ last.op = "query"
    /\ \E j, k \in Candidates :
           /\ j < k
           /\ ScoreAt(j) = ScoreAt(k)
           /\ vectors[j].metadata # vectors[k].metadata
           /\ RankOf(j) = last.top_k
           /\ last.matches[last.top_k].metadata = vectors[j].metadata

(***************************************************************************)
(* Claims about the indexing endpoint (checked under SpecApi).             *)
(***************************************************************************)
\* C16: for every request list, index_documents answers with status 200
\* and a results map with one entry per requested identifier, "success"
\* when the index flow succeeded for it and "failed" when it did not: a
\* failing document is an entry of the map, not an error of the request.
C16_PerDocumentResults ==
    last.op = "index_documents" =>
        LET ids == last.document_ids
        IN  /\ last.status = 200
            /\ DOMAIN last.results = { ids[i] : i \in 1..Len(ids) }
            /\ \A i \in 1..Len(ids) :
                   last.results[ids[i]] \in {"success", "failed"}
            /\ \A i \in 1..Len(ids) :
                   (\A j \in i..Len(ids) : ids[j] = ids[i] => j = i) =>
                       (last.results[ids[i]] = "success"
                          <=> SplitText(TextOf(last.fetched[i])) # <<>>)

(***************************************************************************)
(* Further claims about the flows (checked under Spec).                    *)
(***************************************************************************)
\* C17: re-indexing is idempotent at chunk-id level: after a successful
\* process_and_embed(t, d) the index holds, for each chunk id "d-i" the
\* call wrote, exactly one record, the one of this call; so no record of
\* an earlier call for d with the same id remains, and running the same
\* index request twice leaves the same contents as running it once.
C17_ReindexReplaces ==
    (last.op = "process_and_embed" /\ last.result.kind = "ok") =>
        LET d      == last.call.pdf_id
            chunks == SplitText(last.call.text)
        IN  \A i \in 1..Len(chunks) :
                LET held == { k \in 1..Len(vectors) :
                                 vectors[k].id = <<d, "-", i - 1>> }
                IN  /\ Cardinality(held) = 1
                    /\ \A k \in held :
                           vectors[k].metadata.text = chunks[i]

\* C18: every Metrics Record emitted with status failed carries
\* tokens_consumed = 0, tokens_generated = 0 and confidence_score = 0,
\* whatever step of the flow raised.
C18_FailedRecordIsZero ==
    last.op \in QueryFlows =>
        \A i \in 1..Len(last.posted) :
            last.posted[i].status = "failed" =>
                /\ last.posted[i].tokens_consumed = 0
                /\ last.posted[i].tokens_generated = 0
                /\ last.posted[i].confidence_score = Zero

\* C18 witness: a query flow found matches, failed in the generation step
\* and emitted a failed record.
C18_Witness ==
    /\ last.op = "query_documents"
    /\ last.matches # <<>>
    /\ last.genTrace # <<>>
    /\ last.result.kind = "error"
    /\ Len(last.posted) = 1
    /\ last.posted[1].status = "failed"

\* The similarity of the retrieved matches as each flow observes it: the
\* largest score in query_documents, the mean score in process_query.
ObservedSimilarity ==
    IF last.op = "query_documents" THEN MaxScore(last.matches, Zero)
    ELSE IF last.matches = <<>> THEN Zero
    ELSE RatMul(SumScore(last.matches), Rat(1, Len(last.matches)))

\* C21: the confidence_score returned by every successful query flow is
\* calculate_confidence_score(similarity of the retrieved matches, length
\* of the returned answer), as it is or rounded to three decimals.
C21_ConfidenceIsScorerResult ==
    (last.op \in QueryFlows /\ last.result.kind = "answer") =>
        LET expected == CalculateConfidenceScore(ObservedSimilarity,
                                                 Len(last.result.answer))
        IN  last.result.confidence_score \in {expected, Round3(expected)}

\* C22: the stored records are left as they are by every query flow,
\* successful or failed (and so by the LocalIndex.query call it makes), and
\* by every index flow call that fails: only the upsert of a successful
\* index flow changes them.
C22_OnlyUpsertChanges ==
    [][ /\ last'.op \in QueryFlows => vectors' = vectors
        /\ (last'.op = "process_and_embed" /\ last'.result.kind = "error")
              => vectors' = vectors
        /\ vectors' # vectors =>
              /\ last'.op = "process_and_embed"
              /\ last'.result.kind = "ok"
              /\ last'.upserts = 1 ]_vars

\* C22 witness: process_query failed after its index query on an index
\* that holds records.
C22_Witness ==
    /\ last.op = "process_query"
    /\ last.queried
    /\ last.matches # <<>>
    /\ last.result.kind = "error"
    /\ vectors # <<>>

\* C23: in every reachable state every record the index flow has stored has
\* a vector of length TARGET_EMBED_DIM, and every vector a query flow has
\* passed to index.query has length TARGET_EMBED_DIM, whichever embedding
\* path (remote, local, fallback after a failure) produced it.
C23_VectorsHaveIndexDimension ==
    /\ \A k \in 1..Len(vectors) :
           Len(vectors[k].values) = TARGET_EMBED_DIM
    /\ (last.op \in QueryFlows /\ last.queried) =>
           Len(last.qvec) = TARGET_EMBED_DIM

\* C23 witness: the index holds a record whose remote embedding was longer
\* than the index dimension, and a query flow queried it with a remote
\* embedding that was shorter.
C23_Witness ==
    /\ last.op \in QueryFlows
    /\ last.queried
    /\ last.embedTrace # <<>>
    /\ LET final == last.embedTrace[Len(last.embedTrace)]
       IN  /\ final.kind = "ok"
           /\ Len(final.value) < TARGET_EMBED_DIM
           /\ final.value # <<>>
    /\ \E k \in 1..Len(vectors) : vectors[k].values = <<3, 4>>

(***************************************************************************)
(* Claims about the index flow beside a query (checked under SpecFlow).    *)
(***************************************************************************)
\* C24: in the index flow all chunks are embedded, every backoff sleep
\* included, before the one upsert of the call: while the flow embeds or
\* sleeps none of its records is in the index, after it they all are, and
\* a query that ran beside the flow went over none or all of the records
\* the call wrote, never over some of them only.
C24_RecordsVisibleTogether ==
    /\ flow.pc \in {"embed", "sleep"} => flow.written = 0
    /\ flow.pc = "sleep" => Len(flow.built) < Len(flow.chunks)
    /\ flow.pc = "done" =>
          /\ flow.first + flow.written - 1 <= Len(vectors)
          /\ \A k \in 1..flow.written :
                 vectors[flow.first + k - 1].id = <<flow.pdf_id, "-", k - 1>>
    /\ (flow.pc = "done" /\ last.op = "query") =>
          \/ last.seen < flow.first
          \/ last.seen >= flow.first + flow.written - 1

\* C24 witness: a call wrote two records and a query that had entered its
\* loop went over both.
C24_Witness ==
    /\ flow.pc = "done"
    /\ flow.written = 2
    /\ last.op = "query"
    /\ last.seen = flow.first + 1
    /\ Len(last.matches) = 2

====
